---- MODULE Spec2Model ----
(***************************************************************************)
(* A model of the metadata/Fortran consistency check and of the header    *)
(* aggregation of scripts/ccpp_capgen.py.                                  *)
(*                                                                         *)
(* Python strings on which the code calls lower(), strip(), split() or     *)
(* tests membership of a character (local names, types, kinds, intents,    *)
(* dimensions) are sequences of one-character strings, so that those       *)
(* conversions are computed.  Titles and header types are only compared    *)
(* with == by the code and are TLA+ strings.                               *)
(*                                                                         *)
(* An error string (errors_found) is a sequence of tokens: a diagnostic    *)
(* message is one token, and the newline add_error inserts is the token    *)
(* NL.  String concatenation is \o.                                        *)
(***************************************************************************)
EXTENDS Integers, Sequences, FiniteSets, TLC

VARIABLES
    \* dims_comp applied to one pair of variables
    dims_pc, mdims, fdims, dims_errors,
    \* compare_fheader_to_mheader applied to one pair of headers
    cmp_pc, cmp_mheader, cmp_fheader, cmp_result,
    \* check_fortran_against_metadata: its position, its arguments
    \* meta_headers and the Fortran headers as parsed (fheaders), the list
    \* fort_headers it pops from (positions in fheaders), header_dict (the
    \* pairs <<position in meta_headers, position in fheaders>> in insertion
    \* order), the loop index, errors_found, and the CCPPError raised
    \* (chk_error) with the num_errors of its message, and the value
    \* returned to the caller (chk_return)
    chk_pc, meta_headers, fheaders, fort_headers, header_dict, chk_i,
    errors_found, chk_error, num_errors, chk_return,
    \* capgen: its position, its arguments host_files, scheme_files and
    \* gen_hostcap, the loop indices over the files and over the headers of
    \* a file, the locals of parse_host_model_files (host_meta_headers,
    \* host_known_ddts) and of parse_scheme_files (scheme_meta_headers,
    \* scheme_header_dict, scheme_known_ddts), the calls made to
    \* MetadataTable.parse_metadata_file, the CCPPError that ended the run
    \* and the generation steps done
    run_pc, host_files, scheme_files, gen_hostcap, file_i, hdr_i,
    host_meta_headers, host_known_ddts,
    scheme_meta_headers, scheme_header_dict, scheme_known_ddts,
    parse_calls, run_error, generated

dimsVars == <<dims_pc, mdims, fdims, dims_errors>>
cmpVars == <<cmp_pc, cmp_mheader, cmp_fheader, cmp_result>>
chkVars ==
    <<chk_pc, meta_headers, fheaders, fort_headers, header_dict, chk_i,
      errors_found, chk_error, num_errors, chk_return>>
inputVars == <<host_files, scheme_files, gen_hostcap>>
hostVars == <<host_meta_headers, host_known_ddts>>
schemeVars ==
    <<scheme_meta_headers, scheme_header_dict, scheme_known_ddts>>
runVars ==
    <<run_pc, inputVars, file_i, hdr_i, hostVars, schemeVars, parse_calls,
      run_error, generated>>
vars == <<dimsVars, cmpVars, chkVars, runVars>>

(***************************************************************************)
(* Bounds of the model.                                                    *)
(***************************************************************************)
\* The longest dimension list dims_comp is applied to
MaxRank == 2

\* The longest variable list of a header compare is applied to
MaxVars == 2

\* The most metadata headers, and the most Fortran headers, of a file
MaxHeaders == 2

\* The most host files, and the most scheme files, of a run
MaxFiles == 2

\* The sequences over S of length at most n
SeqsUpTo(S, n) == UNION {[1..k -> S] : k \in 0..n}

(***************************************************************************)
(* Python str operations.                                                  *)
(***************************************************************************)
UpperToLower ==
    ("A" :> "a") @@ ("B" :> "b") @@ ("C" :> "c") @@ ("D" :> "d") @@
    ("E" :> "e") @@ ("F" :> "f") @@ ("G" :> "g") @@ ("H" :> "h") @@
    ("I" :> "i") @@ ("J" :> "j") @@ ("K" :> "k") @@ ("L" :> "l") @@
    ("M" :> "m") @@ ("N" :> "n") @@ ("O" :> "o") @@ ("P" :> "p") @@
    ("Q" :> "q") @@ ("R" :> "r") @@ ("S" :> "s") @@ ("T" :> "t") @@
    ("U" :> "u") @@ ("V" :> "v") @@ ("W" :> "w") @@ ("X" :> "x") @@
    ("Y" :> "y") @@ ("Z" :> "z")

\* str.lower()
Lower(s) ==
    [i \in 1..Len(s) |->
        IF s[i] \in DOMAIN UpperToLower THEN UpperToLower[s[i]] ELSE s[i]]

RECURSIVE LStrip(_)
LStrip(s) ==
    IF s # <<>> /\ Head(s) = " " THEN LStrip(Tail(s)) ELSE s

RECURSIVE RStrip(_)
RStrip(s) ==
    IF s # <<>> /\ s[Len(s)] = " " THEN RStrip(SubSeq(s, 1, Len(s) - 1)) ELSE s

\* str.strip()
Strip(s) == RStrip(LStrip(s))

\* c in s, for a one-character c
HasChar(c, s) == \E i \in 1..Len(s) : s[i] = c

\* s.split(sep), for a one-character sep
RECURSIVE Split(_, _)
Split(s, sep) ==
    IF s = <<>> THEN << <<>> >>
    ELSE LET rest == Split(Tail(s), sep)
         IN  IF Head(s) = sep
             THEN << <<>> >> \o rest
             ELSE << <<Head(s)>> \o Head(rest) >> \o Tail(rest)

\* sep.join(parts)
RECURSIVE Join(_, _)
Join(parts, sep) ==
    IF parts = <<>> THEN <<>>
    ELSE IF Len(parts) = 1 THEN parts[1]
    ELSE parts[1] \o <<sep>> \o Join(Tail(parts), sep)

\* [x.strip() for x in parts]
StripAll(parts) == [i \in 1..Len(parts) |-> Strip(parts[i])]

(***************************************************************************)
(* Error strings.                                                          *)
(***************************************************************************)
\* One diagnostic message: its template (kind), the name it is formatted
\* with and, for a dimension message, the dimension number.
Diag(kind, name, idx) ==
    [kind |-> kind, name |-> name, idx |-> idx, etype |-> ""]

\* The character '\n'
NL == Diag("\n", <<>>, 0)

add_error(error_string, new_error) ==
    IF error_string # <<>>
    THEN (error_string \o <<NL>>) \o new_error
    ELSE error_string \o new_error

(***************************************************************************)
(* dims_comp                                                               *)
(***************************************************************************)
Colon == <<":">>

\* The source variable's dimensions arrive in standard-name form: the
\* conversion is done by the metadata header, outside this file.
convert_dims_to_standard_names(fvar) == fvar.dimensions

\* Lines 288-298: one metadata dimension as it is compared
NormMDim(mdim) ==
    LET d == IF HasChar(":", mdim) THEN Join(StripAll(Split(mdim, ":")), ":")
             ELSE mdim
    IN  Lower(d)

\* Lines 291-298: one source dimension as it is compared
NormFDim(fdim0) ==
    LET s == Strip(fdim0)
        d == IF HasChar(":", s) THEN Join(StripAll(Split(s, ":")), ":") ELSE s
    IN  Lower(d)

\* Line 300: comp = fdim in (':', fdim)
DimComp(mdim, fdim) == fdim \in {Colon, fdim}

\* The loop of lines 287-309, from dimension index dim_ind (1-based) on
RECURSIVE DimsLoop(_, _, _, _, _)
DimsLoop(mdimsL, fdimsL, stdname, dim_ind, errors) ==
    IF dim_ind > Len(mdimsL) THEN errors
    ELSE LET mdim == NormMDim(mdimsL[dim_ind])
             fdim == NormFDim(fdimsL[dim_ind])
             errs == IF DimComp(mdim, fdim) THEN errors
                     ELSE add_error(errors,
                                    <<Diag("dim mismatch", stdname, dim_ind)>>)
         IN  DimsLoop(mdimsL, fdimsL, stdname, dim_ind + 1, errs)

dims_comp(mvar, fvar) ==
    LET mdimsL == mvar.dimensions
        fdimsL == convert_dims_to_standard_names(fvar)
        comp == Len(mdimsL) = Len(fdimsL)
        errors == IF ~comp
                  THEN add_error(<<>>, <<Diag("rank mismatch",
                                             mvar.standard_name, 0)>>)
                  ELSE <<>>
    IN  IF comp THEN DimsLoop(mdimsL, fdimsL, mvar.standard_name, 1, errors)
        ELSE errors

(***************************************************************************)
(* Variables and headers.  A variable is the record of the properties the  *)
(* code reads with get_prop_value and get_dimensions; a header has a       *)
(* title, a header_type, its variable_list() and, for a Fortran header,    *)
(* has_variables.                                                          *)
(***************************************************************************)
Var(lname, type, kind, intent, dims) ==
    [local_name |-> lname, standard_name |-> Lower(lname), type |-> type,
     kind |-> kind, intent |-> intent, dimensions |-> dims]

Header(title, htype, vlist, hasvars) ==
    [title |-> title, header_type |-> htype, variables |-> vlist,
     has_variables |-> hasvars]

_EXTRA_VARIABLE_TABLE_TYPES == {"module", "host", "ddt"}

\* A variant in which no table type is ordered
Mutant_ORDERED_TABLE_TYPES == {}

_ORDERED_TABLE_TYPES == {"scheme"}

is_arrayspec(local_name) == HasChar("(", local_name)

\* A variant that searches case sensitively
Mutant_find_var_in_list(local_name, var_list) ==
    LET hits == {i \in 1..Len(var_list) :
                    var_list[i].local_name = local_name}
    IN  IF hits = {} THEN -1
        ELSE (CHOOSE i \in hits : \A j \in hits : i <= j) - 1

\* The index (from 0) of the first variable of var_list whose local name
\* is local_name, case insensitive, or -1; the variable found is
\* var_list[vind + 1].
find_var_in_list(local_name, var_list) ==
    LET lname == Lower(local_name)
        hits == {i \in 1..Len(var_list) :
                    Lower(var_list[i].local_name) = lname}
    IN  IF hits = {} THEN -1
        ELSE (CHOOSE i \in hits : \A j \in hits : i <= j) - 1

\* The message of var_comp does not name the variable but ends with the
\* context (file and line) of mvar: name stands for that context.
var_comp(prop_name, mvar, fvar) ==
    LET mprop == Lower(mvar[prop_name])
        fprop == Lower(fvar[prop_name])
    IN  IF mprop = fprop THEN <<>>
        ELSE add_error(<<>>, <<Diag(prop_name, mvar.local_name, 0)>>)

(***************************************************************************)
(* compare_fheader_to_mheader                                              *)
(***************************************************************************)
\* Lines 341-345: the metadata variables that are not array references
NumNonArrayRefs(mlist) ==
    Cardinality({i \in 1..Len(mlist) : ~is_arrayspec(mlist[i].local_name)})

ArityDiag(etype) ==
    [kind |-> "variables missing from", name |-> <<>>, idx |-> 0,
     etype |-> etype]

\* Lines 346-363: the error string after the length check
ArityCheck(fht, mlen, flen) ==
    LET list_match ==
            IF mlen = flen THEN TRUE
            ELSE IF fht \in _EXTRA_VARIABLE_TABLE_TYPES THEN flen > mlen
            ELSE FALSE
        etype ==
            IF fht \in _EXTRA_VARIABLE_TABLE_TYPES THEN "Fortran"
            ELSE IF flen > mlen THEN "metadata header"
            ELSE "Fortran"
    IN  IF ~list_match THEN add_error(<<>>, <<ArityDiag(etype)>>) ELSE <<>>

\* Lines 400-423: the property comparisons of one matched variable
FieldChecks(mht, mvar, fvar, found) ==
    LET e0 == var_comp("local_name", mvar, fvar)
    IN  IF e0 # <<>> THEN add_error(found, e0)
        ELSE LET e1 == var_comp("type", mvar, fvar)
                 f1 == IF e1 # <<>> THEN add_error(found, e1)
                       ELSE found
                 e2 == var_comp("kind", mvar, fvar)
                 f2 == IF e2 # <<>> THEN add_error(f1, e2) ELSE f1
                 e3 == IF mht = "scheme" THEN var_comp("intent", mvar, fvar)
                       ELSE <<>>
                 f3 == IF e3 # <<>> THEN add_error(f2, e3) ELSE f2
                 e4 == dims_comp(mvar, fvar)
             IN  IF e4 # <<>> THEN add_error(f3, e4) ELSE f3

\* Lines 365-423: one iteration of the loop over the metadata variables,
\* for the variable at index mind (from 0)
VarStep(mht, fht, mlist, flist, mind, found) ==
    LET mvar == mlist[mind + 1]
        lname == mvar.local_name
        arrayref == is_arrayspec(lname)
        find == find_var_in_list(lname, flist)
        flen == Len(flist)
    IN  IF mind >= flen
        THEN IF arrayref THEN found
             ELSE IF find = -1
             THEN add_error(found,
                            <<Diag("No Fortran variable for", lname, 0)>>)
             ELSE found
        ELSE IF find = -1
        THEN add_error(found,
                       <<Diag("no Fortran variable", lname, 0)>>)
        ELSE IF fht \in _ORDERED_TABLE_TYPES /\ find # mind
        THEN add_error(found,
                       <<Diag("Out of order argument", lname, 0)>>)
        ELSE IF arrayref THEN found
        ELSE FieldChecks(mht, mvar, flist[find + 1], found)

\* Lines 364-424: the loop, from index mind on
RECURSIVE VarLoop(_, _, _, _, _, _)
VarLoop(mht, fht, mlist, flist, mind, found) ==
    IF mind >= Len(mlist) THEN found
    ELSE VarLoop(mht, fht, mlist, flist, mind + 1,
                 VarStep(mht, fht, mlist, flist, mind, found))

\* A variant with 'and' for the 'or' of line 326
Mutant_TypeMismatch(mht, fht) ==
    mht # "host" /\ fht \notin {"module", "scheme"}

\* Line 326, for header types that differ: host metadata can be in a
\* Fortran module or scheme
TypeMismatch(mht, fht) == mht # "host" \/ fht \notin {"module", "scheme"}

\* The result is the string returned, or raised = TRUE for the CCPPError
\* of line 329.
compare_fheader_to_mheader(meta_header, fort_header) ==
    LET mht == meta_header.header_type
        fht == fort_header.header_type
        mlist == meta_header.variables
        flist == fort_header.variables
    IN  IF mht # fht
        THEN IF TypeMismatch(mht, fht)
             THEN [raised |-> TRUE, errors |-> <<>>]
             ELSE [raised |-> FALSE, errors |-> <<>>]
        ELSE [raised |-> FALSE,
              errors |-> VarLoop(mht, fht, mlist, flist, 0,
                                 ArityCheck(fht, NumNonArrayRefs(mlist),
                                            Len(flist)))]

(***************************************************************************)
(* Inputs.                                                                 *)
(***************************************************************************)
s_real == <<"r", "e", "a", "l">>
s_REAL == <<"R", "E", "A", "L">>
s_integer == <<"i", "n", "t">>
s_kind == <<"k", "p">>
s_in == <<"i", "n">>
s_IN == <<"I", "N">>
s_out == <<"o", "u", "t">>
d_km == <<"k", "m">>
d_km2 == <<"k", "m", "2">>
d_KM == <<"K", "M">>
d_km_sp == <<" ", "k", "m", " ">>
d_colon == <<":">>
d_colon_sp == <<" ", ":", " ">>
d_im_jm == <<"i", "m", ":", "j", "m">>
d_IM_JM_sp == <<"I", "M", " ", ":", " ", "J", "M">>
d_im_km == <<"i", "m", ":", "k", "m">>

\* The dimension strings dims_comp is tried on
DimPool ==
    {d_km, d_km2, d_KM, d_km_sp, d_colon, d_colon_sp, d_im_jm, d_IM_JM_sp,
     d_im_km}

n_a == <<"a">>
n_A == <<"A">>
n_b == <<"b">>
n_c == <<"c">>
n_a1 == <<"a", "(", "1", ")">>

v_a == Var(n_a, s_real, s_kind, s_in, <<>>)
v_b == Var(n_b, s_real, s_kind, s_in, <<>>)

\* The variables of metadata headers
MetaVarPool ==
    {Var(n_a, s_real, s_kind, s_in, <<>>),
     Var(n_A, s_real, s_kind, s_in, <<>>),
     Var(n_b, s_real, s_kind, s_in, <<>>),
     Var(n_b, s_integer, <<>>, s_out, <<>>),
     Var(n_c, s_real, s_kind, s_in, <<d_km2>>),
     Var(n_a1, s_real, s_kind, s_in, <<>>)}

\* The variables of Fortran headers
FortVarPool ==
    {Var(n_a, s_REAL, s_kind, s_IN, <<>>),
     Var(n_b, s_real, s_kind, s_in, <<>>),
     Var(n_c, s_real, s_kind, s_in, <<d_km>>),
     Var(n_c, s_real, s_kind, s_in, <<>>)}

\* A Fortran scope declares a name once
DistinctNames(vlist) ==
    \A i, j \in 1..Len(vlist) :
        i # j => Lower(vlist[i].local_name) # Lower(vlist[j].local_name)

MetaTypes == {"module", "host", "ddt", "scheme"}

\* The header types the Fortran parser gives
FortTypes == {"module", "scheme", "ddt"}

NoResult == [raised |-> FALSE, errors |-> <<>>]

\* The value of a call that returns nothing: None.  A value returned would
\* have given = TRUE.
PyNone == [given |-> FALSE, assoc |-> <<>>]

(***************************************************************************)
(* dims_comp on its own.                                                   *)
(***************************************************************************)
DimsIdle ==
    /\ dims_pc = "idle"
    /\ mdims = <<>>
    /\ fdims = <<>>
    /\ dims_errors = <<>>

CmpIdle ==
    /\ cmp_pc = "idle"
    /\ cmp_mheader = Header("", "module", <<>>, FALSE)
    /\ cmp_fheader = Header("", "module", <<>>, FALSE)
    /\ cmp_result = NoResult

ChkIdle ==
    /\ chk_pc = "idle"
    /\ meta_headers = <<>>
    /\ fheaders = <<>>
    /\ fort_headers = <<>>
    /\ header_dict = <<>>
    /\ chk_i = 0
    /\ errors_found = <<>>
    /\ chk_error = "none"
    /\ num_errors = 0
    /\ chk_return = PyNone

RunIdle ==
    /\ run_pc = "idle"
    /\ host_files = <<>>
    /\ scheme_files = <<>>
    /\ gen_hostcap = FALSE
    /\ file_i = 0
    /\ hdr_i = 0
    /\ host_meta_headers = <<>>
    /\ host_known_ddts = <<>>
    /\ scheme_meta_headers = <<>>
    /\ scheme_header_dict = <<>>
    /\ scheme_known_ddts = <<>>
    /\ parse_calls = <<>>
    /\ run_error = "none"
    /\ generated = <<>>

InitDims ==
    /\ dims_pc = "start"
    /\ mdims \in SeqsUpTo(DimPool, MaxRank)
    /\ fdims \in SeqsUpTo(DimPool, MaxRank)
    /\ dims_errors = <<>>
    /\ CmpIdle
    /\ ChkIdle
    /\ RunIdle

DimsCompCall ==
    /\ dims_pc = "start"
    /\ dims_errors' = dims_comp(Var(n_c, s_real, s_kind, s_in, mdims),
                                Var(n_c, s_real, s_kind, s_in, fdims))
    /\ dims_pc' = "done"
    /\ UNCHANGED <<mdims, fdims, cmpVars, chkVars, runVars>>

NextDims == DimsCompCall

SpecDims == InitDims /\ [][NextDims]_vars

(***************************************************************************)
(* compare_fheader_to_mheader on its own.                                  *)
(***************************************************************************)
InitCompare ==
    /\ cmp_pc = "start"
    /\ \E mht \in MetaTypes, mlist \in SeqsUpTo(MetaVarPool, MaxVars) :
          cmp_mheader = Header("t", mht, mlist, TRUE)
    /\ \E fht \in FortTypes, flist \in SeqsUpTo(FortVarPool, MaxVars) :
          /\ DistinctNames(flist)
          /\ cmp_fheader = Header("t", fht, flist, flist # <<>>)
    /\ cmp_result = NoResult
    /\ DimsIdle
    /\ ChkIdle
    /\ RunIdle

CompareCall ==
    /\ cmp_pc = "start"
    /\ cmp_result' = compare_fheader_to_mheader(cmp_mheader, cmp_fheader)
    /\ cmp_pc' = IF cmp_result'.raised THEN "raised" ELSE "done"
    /\ UNCHANGED <<cmp_mheader, cmp_fheader, dimsVars, chkVars, runVars>>

NextCompare == CompareCall

SpecCompare == InitCompare /\ [][NextCompare]_vars

(***************************************************************************)
(* check_fortran_against_metadata, one loop iteration a step.              *)
(***************************************************************************)
\* A variant that leaves the element in the list
Mutant_PopAt(list, k) == list

\* list.pop(k), k from 1: the list without its k-th element
PopAt(list, k) == SubSeq(list, 1, k - 1) \o SubSeq(list, k + 1, Len(list))

\* len(re.findall(r'\n', errors)) + 1
CountErrors(errors) ==
    Cardinality({k \in 1..Len(errors) : errors[k] = NL}) + 1

\* Entry: lines 436 and 437
StartCheck(mh, fh) ==
    /\ meta_headers' = mh
    /\ fheaders' = fh
    /\ fort_headers' = [k \in 1..Len(fh) |-> k]
    /\ header_dict' = <<>>
    /\ chk_i' = 1
    /\ errors_found' = <<>>
    /\ chk_error' = "none"
    /\ num_errors' = 0
    /\ chk_return' = PyNone
    /\ chk_pc' = "pair"

\* Lines 437-453: one iteration of the loop over meta_headers
PairHeader ==
    /\ chk_pc = "pair"
    /\ chk_i <= Len(meta_headers)
    /\ LET mtitle == meta_headers[chk_i].title
           hits == {k \in 1..Len(fort_headers) :
                       fheaders[fort_headers[k]].title = mtitle}
       IN  IF hits = {}
           THEN /\ chk_error' = "No matching Fortran routine found"
                /\ chk_pc' = "failed"
                /\ UNCHANGED <<fort_headers, header_dict, chk_i>>
           ELSE LET findex == CHOOSE k \in hits : \A j \in hits : k <= j
                IN  /\ header_dict' =
                           Append(header_dict, <<chk_i, fort_headers[findex]>>)
                    /\ fort_headers' = PopAt(fort_headers, findex)
                    /\ chk_i' = chk_i + 1
                    /\ UNCHANGED <<chk_error, chk_pc>>
    /\ UNCHANGED <<meta_headers, fheaders, errors_found, num_errors,
                   chk_return>>
    /\ UNCHANGED <<dimsVars, cmpVars, runVars>>

\* Lines 455-470: the Fortran headers left over
CheckLeftOver ==
    /\ chk_pc = "pair"
    /\ chk_i > Len(meta_headers)
    /\ IF \E k \in 1..Len(fort_headers) :
              fheaders[fort_headers[k]].has_variables
       THEN /\ chk_error' = "No matching metadata header found"
            /\ chk_pc' = "failed"
            /\ UNCHANGED chk_i
       ELSE /\ chk_pc' = "compare"
            /\ chk_i' = 1
            /\ UNCHANGED chk_error
    /\ UNCHANGED <<meta_headers, fheaders, fort_headers, header_dict,
                   errors_found, num_errors, chk_return>>
    /\ UNCHANGED <<dimsVars, cmpVars, runVars>>

\* Lines 471-474: one iteration of the loop over header_dict
CompareHeader ==
    /\ chk_pc = "compare"
    /\ chk_i <= Len(header_dict)
    /\ LET mheader == meta_headers[header_dict[chk_i][1]]
           fheader == fheaders[header_dict[chk_i][2]]
           res == compare_fheader_to_mheader(mheader, fheader)
       IN  IF res.raised
           THEN /\ chk_error' = "Metadata table type mismatch"
                /\ chk_pc' = "failed"
                /\ UNCHANGED <<errors_found, chk_i>>
           ELSE /\ errors_found' = errors_found \o res.errors
                /\ chk_i' = chk_i + 1
                /\ UNCHANGED <<chk_error, chk_pc>>
    /\ UNCHANGED <<meta_headers, fheaders, fort_headers, header_dict,
                   num_errors, chk_return>>
    /\ UNCHANGED <<dimsVars, cmpVars, runVars>>

\* Lines 475-482: raise the errors found, or return
ReportErrors ==
    /\ chk_pc = "compare"
    /\ chk_i > Len(header_dict)
    /\ IF errors_found # <<>>
       THEN /\ num_errors' = CountErrors(errors_found)
            /\ chk_error' = "errors found comparing"
            /\ chk_pc' = "failed"
            /\ UNCHANGED chk_return
       ELSE /\ chk_pc' = "returned"
            /\ chk_return' = PyNone
            /\ UNCHANGED <<num_errors, chk_error>>
    /\ UNCHANGED <<meta_headers, fheaders, fort_headers, header_dict, chk_i,
                   errors_found>>
    /\ UNCHANGED <<dimsVars, cmpVars, runVars>>

\* The headers of the files the check is tried on
MetaHeaderPool ==
    {Header(t, b[1], b[2], TRUE) :
        t \in {"p", "q"},
        b \in {<<"scheme", <<Var(n_a, s_real, s_kind, s_in, <<>>)>> >>,
               <<"scheme", <<Var(n_a, s_integer, s_kind, s_in, <<>>)>> >>,
               <<"scheme", <<Var(n_a, s_real, s_kind, s_in, <<>>),
                             Var(n_b, s_real, s_kind, s_in, <<>>)>> >>,
               <<"module", <<Var(n_a, s_real, s_kind, s_in, <<>>)>> >>}}

FortHeaderPool ==
    {Header(t, b[1], b[2], b[2] # <<>>) :
        t \in {"p", "q"},
        b \in {<<"scheme", <<Var(n_a, s_real, s_kind, s_in, <<>>)>> >>,
               <<"scheme", <<>> >>,
               <<"module", <<Var(n_a, s_real, s_kind, s_in, <<>>)>> >>}}

InitCheck ==
    /\ chk_pc = "pair"
    /\ meta_headers \in SeqsUpTo(MetaHeaderPool, MaxHeaders)
    /\ fheaders \in SeqsUpTo(FortHeaderPool, MaxHeaders)
    /\ fort_headers = [k \in 1..Len(fheaders) |-> k]
    /\ header_dict = <<>>
    /\ chk_i = 1
    /\ errors_found = <<>>
    /\ chk_error = "none"
    /\ num_errors = 0
    /\ chk_return = PyNone
    /\ DimsIdle
    /\ CmpIdle
    /\ RunIdle

\* Files whose headers are of every type
TypedMetaHeaderPool ==
    {Header(t, ty, IF ty = "scheme" THEN <<v_a, v_b>> ELSE <<v_a>>, TRUE) :
        t \in {"p", "q"}, ty \in MetaTypes}

TypedFortHeaderPool ==
    {Header(t, ty, <<v_a>>, TRUE) : t \in {"p", "q"}, ty \in FortTypes}

InitBatch ==
    /\ chk_pc = "pair"
    /\ meta_headers \in SeqsUpTo(TypedMetaHeaderPool, MaxHeaders)
    /\ fheaders \in SeqsUpTo(TypedFortHeaderPool, MaxHeaders)
    /\ fort_headers = [k \in 1..Len(fheaders) |-> k]
    /\ header_dict = <<>>
    /\ chk_i = 1
    /\ errors_found = <<>>
    /\ chk_error = "none"
    /\ num_errors = 0
    /\ chk_return = PyNone
    /\ DimsIdle
    /\ CmpIdle
    /\ RunIdle

NextCheck ==
    \/ PairHeader
    \/ CheckLeftOver
    \/ CompareHeader
    \/ ReportErrors

SpecCheck == InitCheck /\ [][NextCheck]_vars

SpecBatch == InitBatch /\ [][NextCheck]_vars


(***************************************************************************)
(* capgen: parse_host_model_files, parse_scheme_files and the generation   *)
(* steps.  A file is the list of metadata headers the metadata parser      *)
(* gives for it and the list of headers the Fortran parser gives for its   *)
(* Fortran file.                                                           *)
(***************************************************************************)
File(metas, forts) == [meta |-> metas, fort |-> forts]

\* A host file with a ddt and the host variables, declared in a module
F_host ==
    File(<<Header("state_type", "ddt", <<v_a>>, TRUE),
           Header("hmod", "host", <<v_a>>, TRUE)>>,
         <<Header("state_type", "ddt", <<v_a>>, TRUE),
           Header("hmod", "module", <<v_a>>, TRUE)>>)

\* A scheme
F_scheme ==
    File(<<Header("run", "scheme", <<v_a>>, TRUE)>>,
         <<Header("run", "scheme", <<v_a>>, TRUE)>>)

\* Another scheme of the same title, and a ddt
F_two ==
    File(<<Header("run", "scheme", <<v_a, v_b>>, TRUE),
           Header("vmr_type", "ddt", <<v_a>>, TRUE)>>,
         <<Header("run", "scheme", <<v_a, v_b>>, TRUE),
           Header("vmr_type", "ddt", <<v_a>>, TRUE)>>)

\* A scheme whose metadata has a variable its Fortran has not
F_bad ==
    File(<<Header("bad", "scheme", <<v_a, v_b>>, TRUE)>>,
         <<Header("bad", "scheme", <<v_a>>, TRUE)>>)

\* A scheme whose Fortran file has no header for it
F_unpaired ==
    File(<<Header("lost", "scheme", <<v_a>>, TRUE)>>, <<>>)

FilePool == {F_host, F_scheme, F_two, F_bad, F_unpaired}

\* dict[key] = value
DictSet(dict, key, value) == (key :> value) @@ dict

\* Lines 496-503 (545-552): the metadata parser is given known_ddts, and
\* check_fortran_against_metadata is entered with the headers of the file
ParseFile(list, files, known_ddts) ==
    /\ parse_calls' = Append(parse_calls,
                             [list |-> list, file |-> file_i,
                              known_ddts |-> known_ddts])
    /\ StartCheck(files[file_i].meta, files[file_i].fort)

\* Lines 493-503
HostParseFile ==
    /\ run_pc = "host_files"
    /\ file_i <= Len(host_files)
    /\ ParseFile("host", host_files, host_known_ddts)
    /\ run_pc' = "host_check"
    /\ UNCHANGED <<inputVars, file_i, hdr_i, hostVars, schemeVars, run_error,
                   generated>>
    /\ UNCHANGED <<dimsVars, cmpVars>>

\* A variant that catches the CCPPError and goes on with the headers of
\* the file
Mutant_CheckRaises ==
    /\ run_pc \in {"host_check", "scheme_check"}
    /\ chk_pc = "failed"
    /\ run_error' = chk_error
    /\ hdr_i' = 1
    /\ run_pc' = IF run_pc = "host_check" THEN "host_headers"
                 ELSE "scheme_headers"
    /\ UNCHANGED <<inputVars, file_i, hostVars, schemeVars,
                   parse_calls, generated, chkVars>>
    /\ UNCHANGED <<dimsVars, cmpVars>>

\* The CCPPError of check_fortran_against_metadata is not caught
CheckRaises ==
    /\ run_pc \in {"host_check", "scheme_check"}
    /\ chk_pc = "failed"
    /\ run_error' = chk_error
    /\ run_pc' = "failed"
    /\ UNCHANGED <<inputVars, file_i, hdr_i, hostVars, schemeVars,
                   parse_calls, generated, chkVars>>
    /\ UNCHANGED <<dimsVars, cmpVars>>

\* Line 505: the loop over the headers of the file begins
HostCheckReturns ==
    /\ run_pc = "host_check"
    /\ chk_pc = "returned"
    /\ hdr_i' = 1
    /\ run_pc' = "host_headers"
    /\ UNCHANGED <<inputVars, file_i, hostVars, schemeVars, parse_calls,
                   run_error, generated, chkVars>>
    /\ UNCHANGED <<dimsVars, cmpVars>>

\* A variant that appends the title of a header of any type
Mutant_AppendIfDdt(known_ddts, header) == Append(known_ddts, header.title)

\* Lines 508-509 and 570-571
AppendIfDdt(known_ddts, header) ==
    IF header.header_type = "ddt" THEN Append(known_ddts, header.title)
    ELSE known_ddts

\* Line 506
HostIsDuplicate(header) == header.title \in DOMAIN host_meta_headers

\* A variant that looks the title up in the map of the host headers
Mutant_SchemeIsDuplicate(header) == header.title \in DOMAIN host_meta_headers

\* Line 555
SchemeIsDuplicate(header) == header.title \in DOMAIN scheme_header_dict

\* Lines 505-524: one iteration of the loop over the headers of a host file
HostRegisterHeader ==
    /\ run_pc = "host_headers"
    /\ hdr_i <= Len(meta_headers)
    /\ LET header == meta_headers[hdr_i]
       IN  IF ~HostIsDuplicate(header)
           THEN /\ host_meta_headers' =
                       DictSet(host_meta_headers, header.title, header)
                /\ host_known_ddts' = AppendIfDdt(host_known_ddts, header)
                /\ hdr_i' = hdr_i + 1
                /\ UNCHANGED <<run_pc, run_error>>
           ELSE /\ run_error' = "Duplicate"
                /\ run_pc' = "failed"
                /\ UNCHANGED <<hostVars, hdr_i>>
    /\ UNCHANGED <<inputVars, file_i, schemeVars, parse_calls, generated,
                   chkVars>>
    /\ UNCHANGED <<dimsVars, cmpVars>>

\* Line 493: the next host file
HostNextFile ==
    /\ run_pc = "host_headers"
    /\ hdr_i > Len(meta_headers)
    /\ file_i' = file_i + 1
    /\ run_pc' = "host_files"
    /\ UNCHANGED <<inputVars, hdr_i, hostVars, schemeVars, parse_calls,
                   run_error, generated, chkVars>>
    /\ UNCHANGED <<dimsVars, cmpVars>>

\* Lines 526-530 and 539-542: the host model is built, and
\* parse_scheme_files begins with lists of its own
HostFilesDone ==
    /\ run_pc = "host_files"
    /\ file_i > Len(host_files)
    /\ scheme_meta_headers' = <<>>
    /\ scheme_header_dict' = <<>>
    /\ scheme_known_ddts' = <<>>
    /\ file_i' = 1
    /\ run_pc' = "scheme_files"
    /\ UNCHANGED <<inputVars, hdr_i, hostVars, parse_calls, run_error,
                   generated, chkVars>>
    /\ UNCHANGED <<dimsVars, cmpVars>>

\* Lines 542-552
SchemeParseFile ==
    /\ run_pc = "scheme_files"
    /\ file_i <= Len(scheme_files)
    /\ ParseFile("scheme", scheme_files, scheme_known_ddts)
    /\ run_pc' = "scheme_check"
    /\ UNCHANGED <<inputVars, file_i, hdr_i, hostVars, schemeVars, run_error,
                   generated>>
    /\ UNCHANGED <<dimsVars, cmpVars>>

\* Line 554: the loop over the headers of the file begins
SchemeCheckReturns ==
    /\ run_pc = "scheme_check"
    /\ chk_pc = "returned"
    /\ hdr_i' = 1
    /\ run_pc' = "scheme_headers"
    /\ UNCHANGED <<inputVars, file_i, hostVars, schemeVars, parse_calls,
                   run_error, generated, chkVars>>
    /\ UNCHANGED <<dimsVars, cmpVars>>

\* Lines 554-573: one iteration of the loop over the headers of a scheme
\* file
SchemeRegisterHeader ==
    /\ run_pc = "scheme_headers"
    /\ hdr_i <= Len(meta_headers)
    /\ LET header == meta_headers[hdr_i]
       IN  IF SchemeIsDuplicate(header)
           THEN /\ run_error' = "Duplicate"
                /\ run_pc' = "failed"
                /\ UNCHANGED <<schemeVars, hdr_i>>
           ELSE /\ scheme_meta_headers' = Append(scheme_meta_headers, header)
                /\ scheme_header_dict' =
                       DictSet(scheme_header_dict, header.title, header)
                /\ scheme_known_ddts' =
                       AppendIfDdt(scheme_known_ddts, header)
                /\ hdr_i' = hdr_i + 1
                /\ UNCHANGED <<run_pc, run_error>>
    /\ UNCHANGED <<inputVars, file_i, hostVars, parse_calls, generated,
                   chkVars>>
    /\ UNCHANGED <<dimsVars, cmpVars>>

\* Line 542: the next scheme file
SchemeNextFile ==
    /\ run_pc = "scheme_headers"
    /\ hdr_i > Len(meta_headers)
    /\ file_i' = file_i + 1
    /\ run_pc' = "scheme_files"
    /\ UNCHANGED <<inputVars, hdr_i, hostVars, schemeVars, parse_calls,
                   run_error, generated, chkVars>>
    /\ UNCHANGED <<dimsVars, cmpVars>>

\* Lines 575 and 612-621: the suites are written
WriteSuites ==
    /\ run_pc = "scheme_files"
    /\ file_i > Len(scheme_files)
    /\ generated' = Append(generated, "suite caps")
    /\ run_pc' = "host_cap"
    /\ UNCHANGED <<inputVars, file_i, hdr_i, hostVars, schemeVars,
                   parse_calls, run_error, chkVars>>
    /\ UNCHANGED <<dimsVars, cmpVars>>

\* Lines 622-628
WriteHostCap ==
    /\ run_pc = "host_cap"
    /\ generated' = IF gen_hostcap THEN Append(generated, "host cap")
                    ELSE generated
    /\ run_pc' = "kinds"
    /\ UNCHANGED <<inputVars, file_i, hdr_i, hostVars, schemeVars,
                   parse_calls, run_error, chkVars>>
    /\ UNCHANGED <<dimsVars, cmpVars>>

\* Line 630
CreateKindsFile ==
    /\ run_pc = "kinds"
    /\ generated' = Append(generated, "kinds file")
    /\ run_pc' = "datatable"
    /\ UNCHANGED <<inputVars, file_i, hdr_i, hostVars, schemeVars,
                   parse_calls, run_error, chkVars>>
    /\ UNCHANGED <<dimsVars, cmpVars>>

\* Lines 632-633
GenerateDatatable ==
    /\ run_pc = "datatable"
    /\ generated' = Append(generated, "datatable")
    /\ run_pc' = "done"
    /\ UNCHANGED <<inputVars, file_i, hdr_i, hostVars, schemeVars,
                   parse_calls, run_error, chkVars>>
    /\ UNCHANGED <<dimsVars, cmpVars>>

\* Lines 491-493: parse_host_model_files begins
Init ==
    /\ run_pc = "host_files"
    /\ host_files \in SeqsUpTo(FilePool, MaxFiles)
    /\ scheme_files \in SeqsUpTo(FilePool, MaxFiles)
    /\ gen_hostcap \in BOOLEAN
    /\ file_i = 1
    /\ hdr_i = 0
    /\ host_meta_headers = <<>>
    /\ host_known_ddts = <<>>
    /\ scheme_meta_headers = <<>>
    /\ scheme_header_dict = <<>>
    /\ scheme_known_ddts = <<>>
    /\ parse_calls = <<>>
    /\ run_error = "none"
    /\ generated = <<>>
    /\ DimsIdle
    /\ CmpIdle
    /\ ChkIdle

\* The steps of check_fortran_against_metadata are taken between the
\* parse of a file and the loop over its headers
Next ==
    \/ HostParseFile
    \/ PairHeader
    \/ CheckLeftOver
    \/ CompareHeader
    \/ ReportErrors
    \/ CheckRaises
    \/ HostCheckReturns
    \/ HostRegisterHeader
    \/ HostNextFile
    \/ HostFilesDone
    \/ SchemeParseFile
    \/ SchemeCheckReturns
    \/ SchemeRegisterHeader
    \/ SchemeNextFile
    \/ WriteSuites
    \/ WriteHostCap
    \/ CreateKindsFile
    \/ GenerateDatatable

Spec == Init /\ [][Next]_vars


(***************************************************************************)
(* Properties.                                                             *)
(***************************************************************************)
\* A dimension as the specification normalises it: split at ':', both
\* bounds trimmed, lowercased
SpecNormDim(d) == Lower(Join(StripAll(Split(d, ":")), ":"))

HasKind(errors, kind) == \E k \in 1..Len(errors) : errors[k].kind = kind

\* The number of messages of errors of a kind in kinds that name name
CountNamed(errors, kinds, name) ==
    Cardinality({k \in 1..Len(errors) :
                    errors[k].kind \in kinds /\ errors[k].name = name})

CountKind(errors, kinds) ==
    Cardinality({k \in 1..Len(errors) : errors[k].kind \in kinds})

\* C1: dims_comp, for equal ranks, returns no error iff at every index the
\* two dimensions are equal after normalisation or the source dimension is
\* a bare ':'; unequal ranks give a rank mismatch message.
C1_DimsCompRule ==
    dims_pc = "done" =>
        IF Len(mdims) = Len(fdims)
        THEN (dims_errors = <<>>) <=>
                 \A i \in 1..Len(mdims) :
                     \/ SpecNormDim(mdims[i]) = SpecNormDim(fdims[i])
                     \/ SpecNormDim(fdims[i]) = Colon
        ELSE HasKind(dims_errors, "rank mismatch")

Range(seq) == {seq[k] : k \in 1..Len(seq)}

HostDdtTitles ==
    {t \in DOMAIN host_meta_headers : host_meta_headers[t].header_type = "ddt"}

\* C2: every ddt registered from the host files is in the known_ddts given
\* to the metadata parser for a scheme file.
C2_HostDdtKnownToSchemes ==
    \A k \in 1..Len(parse_calls) :
        parse_calls[k].list = "scheme" =>
            HostDdtTitles \subseteq Range(parse_calls[k].known_ddts)

\* C3: as long as the run has not failed, no title is held by two
\* registered headers, the host headers and the scheme headers together.
C3_TitlesUniqueInRun ==
    run_pc # "failed" =>
        /\ \A k \in 1..Len(scheme_meta_headers) :
              scheme_meta_headers[k].title \notin DOMAIN host_meta_headers
        /\ \A j, k \in 1..Len(scheme_meta_headers) :
              j # k =>
                 scheme_meta_headers[j].title # scheme_meta_headers[k].title

HostDuplicateNext ==
    /\ run_pc = "host_headers"
    /\ hdr_i <= Len(meta_headers)
    /\ meta_headers[hdr_i].title \in DOMAIN host_meta_headers

SchemeDuplicateNext ==
    /\ run_pc = "scheme_headers"
    /\ hdr_i <= Len(meta_headers)
    /\ meta_headers[hdr_i].title \in DOMAIN scheme_header_dict

\* C4: registering a header whose title is already in the map of its
\* collection ends the run with the duplicate error and leaves the maps,
\* the scheme list and the known ddts as they are.
C4_DuplicateChangesNothing ==
    [][(HostDuplicateNext \/ SchemeDuplicateNext) =>
          /\ run_pc' = "failed"
          /\ run_error' = "Duplicate"
          /\ UNCHANGED <<hostVars, schemeVars>>]_vars

\* A scheme file's ddt header found to be a duplicate, the first header of
\* that title being kept
C4_Witness ==
    /\ run_pc = "failed"
    /\ run_error = "Duplicate"
    /\ scheme_meta_headers # <<>>
    /\ meta_headers[hdr_i].header_type = "ddt"
    /\ meta_headers[hdr_i].title \in DOMAIN scheme_header_dict
    /\ meta_headers[hdr_i].title \in Range(scheme_known_ddts)


CmpM == cmp_mheader.variables
CmpF == cmp_fheader.variables
CmpErrors == cmp_result.errors

\* The metadata list is the source list with the variables at two
\* positions i < j exchanged: same names elsewhere, none an array reference
SwappedAt(i, j) ==
    /\ Len(CmpM) = Len(CmpF)
    /\ i < j
    /\ \A k \in 1..Len(CmpM) : ~is_arrayspec(CmpM[k].local_name)
    /\ Lower(CmpM[i].local_name) = Lower(CmpF[j].local_name)
    /\ Lower(CmpM[j].local_name) = Lower(CmpF[i].local_name)
    /\ \A k \in 1..Len(CmpM) :
          k \notin {i, j} =>
              Lower(CmpM[k].local_name) = Lower(CmpF[k].local_name)

SchemePairDone ==
    /\ cmp_pc = "done"
    /\ cmp_mheader.header_type = "scheme"
    /\ cmp_fheader.header_type = "scheme"

\* C5 as stated: a scheme pair whose metadata swaps two variables gets
\* exactly one 'Out of order argument' message.
C5_SwapOneOutOfOrder ==
    SchemePairDone =>
        \A i, j \in 1..Len(CmpM) :
            SwappedAt(i, j) =>
                CountKind(CmpErrors, {"Out of order argument"}) = 1

\* C5, amended: a scheme pair whose metadata swaps two variables gets
\* exactly two 'Out of order argument' messages, one naming each of the
\* two swapped variables.
C5_SwapTwoOutOfOrder ==
    SchemePairDone =>
        \A i, j \in 1..Len(CmpM) :
            SwappedAt(i, j) =>
                /\ CountKind(CmpErrors, {"Out of order argument"}) = 2
                /\ CountNamed(CmpErrors, {"Out of order argument"},
                              CmpM[i].local_name) = 1
                /\ CountNamed(CmpErrors, {"Out of order argument"},
                              CmpM[j].local_name) = 1

C5_Witness ==
    /\ SchemePairDone
    /\ \E i, j \in 1..Len(CmpM) : SwappedAt(i, j)

\* C6: a metadata variable that is an array reference is named by no
\* message of compare, wherever it stands in the metadata list.
C6_ArrayRefNoDiagnostic ==
    cmp_pc = "done" =>
        \A i \in 1..Len(CmpM) :
            is_arrayspec(CmpM[i].local_name) =>
                \A k \in 1..Len(CmpErrors) :
                    CmpErrors[k].name # CmpM[i].local_name

ArityBlames(etype) ==
    \E k \in 1..Len(CmpErrors) :
        CmpErrors[k].kind = "variables missing from"
        /\ CmpErrors[k].etype = etype

ArityRule(m, f) ==
    IF cmp_mheader.header_type = "scheme"
    THEN /\ HasKind(CmpErrors, "variables missing from") <=> m # f
         /\ f > m => ArityBlames("metadata header")
         /\ f < m => ArityBlames("Fortran")
    ELSE /\ f >= m => ~HasKind(CmpErrors, "variables missing from")
         /\ f < m => ArityBlames("Fortran")

\* C7: the arity rule, for every pair compare accepts: a scheme header
\* needs m = f and the side with fewer variables is blamed; a module, host
\* or ddt header tolerates f >= m and blames the Fortran side when f < m.
C7_ArityRule ==
    cmp_pc = "done" => ArityRule(NumNonArrayRefs(CmpM), Len(CmpF))

\* C7 restricted to pairs of equal header type, the only pairs for which
\* lines 336-363 run.
C7_ArityRuleSameType ==
    (cmp_pc = "done"
     /\ cmp_mheader.header_type = cmp_fheader.header_type) =>
        ArityRule(NumNonArrayRefs(CmpM), Len(CmpF))

MissingKinds == {"No Fortran variable for", "no Fortran variable"}

\* Metadata variable i is no array reference and no source variable has
\* its local name, case insensitively
Absent(i) ==
    /\ ~is_arrayspec(CmpM[i].local_name)
    /\ \A k \in 1..Len(CmpF) :
          Lower(CmpF[k].local_name) # Lower(CmpM[i].local_name)

\* C8: for a pair of equal header type, the missing-Fortran-variable
\* messages naming a local name that is no array reference are exactly
\* one for each metadata variable of that name that is absent from the
\* source header, and none when it is present.
C8_MissingItemised ==
    (cmp_pc = "done"
     /\ cmp_mheader.header_type = cmp_fheader.header_type) =>
        \A i \in 1..Len(CmpM) :
            ~is_arrayspec(CmpM[i].local_name) =>
                CountNamed(CmpErrors, MissingKinds, CmpM[i].local_name)
                = Cardinality({k \in 1..Len(CmpM) :
                                  /\ CmpM[k].local_name = CmpM[i].local_name
                                  /\ Absent(k)})

\* Two absent variables, one before and one past the end of the source list
C8_Witness ==
    /\ cmp_pc = "done"
    /\ cmp_mheader.header_type = cmp_fheader.header_type
    /\ \E i, j \in 1..Len(CmpM) :
          /\ i <= Len(CmpF)
          /\ j > Len(CmpF)
          /\ Absent(i)
          /\ Absent(j)
          /\ CmpM[i].local_name # CmpM[j].local_name

\* The number of diagnostic messages in an error string
CountDiags(errors) ==
    Cardinality({k \in 1..Len(errors) : errors[k] # NL})

\* C9: when the check fails with the errors found comparing the headers,
\* the error count of its message is the number of diagnostics of all the
\* pairs of the file.
C9_ErrorCountIsTotal ==
    (chk_pc = "failed" /\ chk_error = "errors found comparing") =>
        num_errors = CountDiags(errors_found)

\* The metadata headers 1..i that have the title of metadata header i
SameTitleMeta(i) ==
    {k \in 1..i : meta_headers[k].title = meta_headers[i].title}

\* Metadata header i finds no Fortran header of its title left: the ones
\* there are have been taken by earlier metadata headers of that title
NoFortranLeftFor(i) ==
    Cardinality(SameTitleMeta(i))
    > Cardinality({j \in 1..Len(fheaders) :
                      fheaders[j].title = meta_headers[i].title})

\* Fortran header j stays unpaired when every metadata header has taken
\* the first free Fortran header of its title
StaysUnpaired(j) ==
    Cardinality({k \in 1..j : fheaders[k].title = fheaders[j].title})
    > Cardinality({i \in 1..Len(meta_headers) :
                      meta_headers[i].title = fheaders[j].title})

UnresolvedErrors ==
    {"No matching Fortran routine found", "No matching metadata header found"}

\* C10: every pair has one title, no Fortran header is paired twice and a
\* paired one has left the list; the check ends with an unresolved-header
\* error iff a metadata header finds no Fortran header of its title left,
\* or a Fortran header with has_variables stays unpaired.
C10_Pairing ==
    /\ \A a \in 1..Len(header_dict) :
          /\ meta_headers[header_dict[a][1]].title
             = fheaders[header_dict[a][2]].title
          /\ \A k \in 1..Len(fort_headers) :
                fort_headers[k] # header_dict[a][2]
          /\ \A b \in 1..Len(header_dict) :
                a # b => header_dict[a][2] # header_dict[b][2]
    /\ chk_pc \in {"failed", "returned"} =>
          /\ chk_error = "No matching Fortran routine found"
             <=> \E i \in 1..Len(meta_headers) : NoFortranLeftFor(i)
          /\ chk_error \in UnresolvedErrors
             <=> \/ \E i \in 1..Len(meta_headers) : NoFortranLeftFor(i)
                 \/ \E j \in 1..Len(fheaders) :
                       StaysUnpaired(j) /\ fheaders[j].has_variables

\* A metadata header whose title a Fortran header has, but that header is
\* already paired with an earlier metadata header
C10_Witness ==
    /\ chk_pc = "failed"
    /\ chk_error = "No matching Fortran routine found"
    /\ header_dict # <<>>
    /\ \E j \in 1..Len(fheaders) :
          fheaders[j].title = meta_headers[chk_i].title

\* The header types of a pair for which compare raises, as specified
Incompatible(mheader, fheader) ==
    /\ mheader.header_type # fheader.header_type
    /\ ~(mheader.header_type = "host"
         /\ fheader.header_type \in {"module", "scheme"})

PairIncompatible(a) ==
    Incompatible(meta_headers[header_dict[a][1]],
                 fheaders[header_dict[a][2]])

\* C11: the pairs compared so far without an error raised are compatible;
\* a check that got past the pairing ends with the type mismatch error
\* iff a pair has incompatible header types, whatever the errors found in
\* the pairs before it, and then no error count is reported.
C11_StructuralError ==
    /\ chk_pc = "compare" =>
          \A a \in 1..(chk_i - 1) : ~PairIncompatible(a)
    /\ (chk_pc \in {"failed", "returned"}
        /\ chk_error \notin UnresolvedErrors) =>
          /\ chk_error = "Metadata table type mismatch"
             <=> \E a \in 1..Len(header_dict) : PairIncompatible(a)
          /\ chk_error = "Metadata table type mismatch" => num_errors = 0

\* The type mismatch is raised after an earlier pair gave diagnostics
C11_Witness ==
    /\ chk_pc = "failed"
    /\ chk_error = "Metadata table type mismatch"
    /\ errors_found # <<>>
    /\ chk_i > 1

\* C12: when the check returns, the value it gives its caller is the
\* association of every metadata header of the file with its Fortran
\* header.
C12_ReturnsAssociation ==
    chk_pc = "returned" =>
        /\ chk_return = [given |-> TRUE, assoc |-> header_dict]
        /\ \A i \in 1..Len(meta_headers) :
              \E a \in 1..Len(chk_return.assoc) : chk_return.assoc[a][1] = i

IsDdtHeader(header) == header.header_type = "ddt"

\* The titles of the ddt headers of a file, in the order of the file
DdtTitlesOfFile(file) ==
    LET ddts == SelectSeq(file.meta, IsDdtHeader)
    IN  [i \in 1..Len(ddts) |-> ddts[i].title]

\* The titles of the ddt headers of the first n files, in order
RECURSIVE DdtTitlesOfFiles(_, _)
DdtTitlesOfFiles(files, n) ==
    IF n = 0 THEN <<>>
    ELSE DdtTitlesOfFiles(files, n - 1) \o DdtTitlesOfFile(files[n])

FilesOfList(list) == IF list = "host" THEN host_files ELSE scheme_files

\* The known_ddts given to the parser in a call are the ddt titles of the
\* files of the list before the file parsed, in order and without
\* repetition
KnownAreEarlierDdts(call) ==
    /\ call.known_ddts
       = DdtTitlesOfFiles(FilesOfList(call.list), call.file - 1)
    /\ \A i, j \in 1..Len(call.known_ddts) :
          i # j => call.known_ddts[i] # call.known_ddts[j]

RECURSIVE TitlesOfFiles(_, _)
TitlesOfFiles(files, n) ==
    IF n = 0 THEN <<>>
    ELSE TitlesOfFiles(files, n - 1)
         \o [i \in 1..Len(files[n].meta) |-> files[n].meta[i].title]

\* The c-th call of the parser in a run that parses every host file and
\* then every scheme file, in the order supplied
CallInOrder(c) ==
    IF c <= Len(host_files) THEN <<"host", c>>
    ELSE <<"scheme", c - Len(host_files)>>

AllOrNothing ==
    /\ Len(parse_calls) <= Len(host_files) + Len(scheme_files)
    /\ \A c \in 1..Len(parse_calls) :
          <<parse_calls[c].list, parse_calls[c].file>> = CallInOrder(c)
    /\ run_pc = "failed" => generated = <<>>
    /\ generated # <<>> =>
          /\ run_error = "none"
          /\ Len(parse_calls) = Len(host_files) + Len(scheme_files)
          /\ DOMAIN host_meta_headers
             = Range(TitlesOfFiles(host_files, Len(host_files)))
          /\ [i \in 1..Len(scheme_meta_headers) |->
                 scheme_meta_headers[i].title]
             = TitlesOfFiles(scheme_files, Len(scheme_files))

\* C14: the files are parsed in the order supplied, the host files first;
\* a generation step is done only in a run without error in which every
\* file has been parsed and its headers registered; and once the run has
\* failed nothing more happens.
C14_AllOrNothing ==
    /\ []AllOrNothing
    /\ [][run_pc = "failed" => UNCHANGED vars]_vars

\* A run that failed after registering the headers of a file and before
\* parsing the last file
C14_Witness ==
    /\ run_pc = "failed"
    /\ Len(parse_calls) < Len(host_files) + Len(scheme_files)
    /\ Len(parse_calls) >= 2
    /\ generated = <<>>

\* Source variable k is the one find_var_in_list gives for metadata
\* variable i, which is no array reference
Matched(i, k) ==
    /\ ~is_arrayspec(CmpM[i].local_name)
    /\ k = find_var_in_list(CmpM[i].local_name, CmpF) + 1
    /\ k >= 1

\* A message about property prop names metadata variable i when the
\* property differs, case insensitively, from that of source variable k
DiffReported(prop, i, k) ==
    Lower(CmpM[i][prop]) # Lower(CmpF[k][prop]) =>
        CountNamed(CmpErrors, {prop}, CmpM[i].local_name) >= 1

\* C15: for a host metadata header paired with a module or scheme source
\* header, every metadata variable that is no array reference and is
\* absent from the source header has a missing-variable message, and
\* every one whose type or kind differs from the source variable of the
\* same name has a message about that property.
C15_HostPairChecked ==
    (cmp_pc = "done"
     /\ cmp_mheader.header_type = "host"
     /\ cmp_fheader.header_type \in {"module", "scheme"}) =>
        \A i \in 1..Len(CmpM) :
            /\ Absent(i) =>
                  CountNamed(CmpErrors, MissingKinds, CmpM[i].local_name)
                  >= 1
            /\ \A k \in 1..Len(CmpF) :
                  Matched(i, k) =>
                      /\ DiffReported("type", i, k)
                      /\ DiffReported("kind", i, k)

\* C16: for a pair of equal header type, every metadata variable that is
\* no array reference, has a source variable of its name and is not
\* reported out of order has a message for each of type, kind (and intent
\* for a scheme) that differs from the source variable, whatever its
\* index in the metadata list.
C16_MatchedAlwaysCompared ==
    (cmp_pc = "done"
     /\ cmp_mheader.header_type = cmp_fheader.header_type) =>
        \A i \in 1..Len(CmpM), k \in 1..Len(CmpF) :
            (/\ Matched(i, k)
             /\ CountNamed(CmpErrors, {"Out of order argument"},
                           CmpM[i].local_name) = 0) =>
                /\ DiffReported("type", i, k)
                /\ DiffReported("kind", i, k)
                /\ cmp_mheader.header_type = "scheme" =>
                      DiffReported("intent", i, k)

====
